---- MODULE Spec2Model ----
(***************************************************************************)
(* The ledger engine of medical-records-blockchain: BlockchainService      *)
(* (app/services/blockchain_service.py) over the three Cosmos containers   *)
(* of CosmosDBService (app/services/cosmosdb_service.py) and the Block     *)
(* model (app/models/block.py).                                            *)
(*                                                                         *)
(* Every engine call runs on a request task; the store calls are the only  *)
(* suspension points, so a call is cut into one action per store call.     *)
(***************************************************************************)
EXTENDS Integers, Sequences, FiniteSets, TLC

\* ------------------------------------------------------------------ bounds
\* the number of engine calls started in one behaviour
MaxOps == 3
\* the last instant of the clock: datetime.now returns 0..MaxClock
MaxClock == 1
\* the number of blocks the stores hold when the engine is constructed over
\* stores that are not empty
MaxPrior == 3

\* ------------------------------------------------------------------ inputs
\* the request tasks that run engine calls
Procs == {"t1", "t2"}
ValidatorIds == {"V1", "V2"}
PatientIds == {"P1"}
UserIds == {"U1"}
\* a dict is the sequence of its <<key, value>> items in insertion order
Payloads ==
    { << <<"type", "Exam">>, <<"note", "ok">> >>,
      << <<"note", "ok">> >> }

\* ------------------------------------------------------------------ values
Range(s) == {s[i] : i \in 1..Len(s)}

Digits == <<"0", "1", "2", "3", "4", "5", "6", "7", "8", "9">>

RECURSIVE IntStr(_)
\* str(int) / f"{index}"
IntStr(n) ==
    IF n < 10 THEN Digits[n + 1]
    ELSE IntStr(n \div 10) \o Digits[(n % 10) + 1]

\* datetime.isoformat(): date and time joined by "T"
isoformat(t) == "2024-01-01T00:00:0" \o IntStr(t)

\* str(datetime) / f"{datetime}": date and time joined by a blank
DatetimeStr(t) == "2024-01-01 00:00:0" \o IntStr(t)

\* every call draws the same identifier
uuid4_same(n) == "u0"

\* str(uuid.uuid4()): the n-th identifier drawn, all distinct
uuid4(n) == "u" \o IntStr(n)

\* ------------------------------------------------------------------ dicts
DictKeys(d) == {d[i][1] : i \in 1..Len(d)}

\* key in d
DictHas(d, k) == k \in DictKeys(d)

\* d[k]
DictGet(d, k) == LET i == CHOOSE j \in 1..Len(d) : d[j][1] = k IN d[i][2]

\* d[k] = v: an existing key keeps its place, a new key goes last
DictSet(d, k, v) ==
    IF DictHas(d, k)
    THEN [i \in 1..Len(d) |-> IF d[i][1] = k THEN <<k, v>> ELSE d[i]]
    ELSE Append(d, <<k, v>>)

\* the keys the model uses, in lexicographic (code point) order
KeyOrder ==
    <<"_etag", "_ts", "created_by_id", "created_date_utc", "id", "note", "type">>

RECURSIVE JoinItems(_, _)
\* ", ".join of the items of d whose keys are KeyOrder[i..], in that order
JoinItems(d, i) ==
    IF i > Len(KeyOrder) THEN ""
    ELSE LET k == KeyOrder[i]
             rest == JoinItems(d, i + 1)
         IN IF DictHas(d, k)
            THEN "\"" \o k \o "\": \"" \o DictGet(d, k) \o "\""
                 \o (IF rest = "" THEN "" ELSE ", " \o rest)
            ELSE rest

RECURSIVE JoinInOrder(_)
\* ", ".join of the items of d in insertion order
JoinInOrder(d) ==
    IF d = <<>> THEN ""
    ELSE "\"" \o d[1][1] \o "\": \"" \o d[1][2] \o "\""
         \o (IF Len(d) = 1 THEN "" ELSE ", " \o JoinInOrder(Tail(d)))

\* json.dumps(medical_record) without sort_keys
JsonDumpsUnsorted(d) == "{" \o JoinInOrder(d) \o "}"

\* json.dumps(medical_record, sort_keys=True)
JsonDumps(d) == "{" \o JoinItems(d, 1) \o "}"

\* hashlib.sha256(s.encode()).hexdigest(), taken as collision-free
Sha256(s) == "h(" \o s \o ")"

\* ------------------------------------------------------------------ state
VARIABLES
    validators,   \* BlockchainService.validators: the in-memory list of ids
    registry,     \* Validator Registry: ids of the documents of 'validators'
    records,      \* Content Store: record id -> stored medical record
    ledger,       \* Ledger Store: the block documents of 'blockchain'
    now,          \* the clock read by datetime.now(timezone.utc)
    nextUuid,     \* how many uuid4 identifiers have been drawn
    calls,        \* the upserts made so far, and the add_validator calls
    nops,         \* engine calls started so far
    pc,           \* per task: where its engine call stands
    args,         \* per task: the arguments of the call it runs
    local,        \* per task: the local variables of the call it runs
    last          \* the engine call that ended last: arguments, locals, outcome

stores == <<registry, records, ledger>>
tasks == <<pc, args, local>>
vars == <<validators, registry, records, ledger, now, nextUuid, calls, nops,
          pc, args, local, last>>

\* ------------------------------------------------------------------ results
Running == [kind |-> "none", exc |-> "", val |-> <<>>]
Return(v) == [kind |-> "return", exc |-> "", val |-> v]
Raise(e) == [kind |-> "raise", exc |-> e, val |-> <<>>]
\* Python's None as a returned value
None == "None"

Unauthorized == "ValueError: Unauthorized validator attempted to create a block."
MissingType == "ValueError: Medical record must include a 'type' field to specify its subtype."
StoreBlockFailed == "Exception: Failed to store the new block in the blockchain."
CosmosError == "CosmosHttpResponseError"

NoArgs ==
    [patient_id |-> "", medical_record |-> <<>>, validator_id |-> "",
     user_id |-> "", block |-> <<>>]
NoLocal ==
    [medical_record |-> <<>>, medical_record_id |-> "", items |-> <<>>,
     asked |-> FALSE, stored |-> FALSE, blockchain |-> <<>>, missing |-> {}]

\* ------------------------------------------------------------------ blocks
\* Block.__init__: the seven declared fields of data, with the timestamp
\* replaced by the instant of construction (an 'id' in data is not a field)
Block(data, t) ==
    [index |-> data.index,
     timestamp |-> t,
     patient_id |-> data.patient_id,
     medical_record_id |-> data.medical_record_id,
     previous_hash |-> data.previous_hash,
     hash |-> data.hash,
     validator_id |-> data.validator_id]

\* new_block.model_dump() with block['id'] = id, as store_block upserts it
BlockDoc(block, id) ==
    [index |-> block.index,
     timestamp |-> block.timestamp,
     patient_id |-> block.patient_id,
     medical_record_id |-> block.medical_record_id,
     previous_hash |-> block.previous_hash,
     hash |-> block.hash,
     validator_id |-> block.validator_id,
     id |-> id]

\* validator_id left out of the hashed string
compute_block_hash_short(index, timestamp, patient_id, medical_record_id, medical_record, previous_hash, validator_id) ==
    Sha256(IntStr(index) \o timestamp \o patient_id \o medical_record_id
           \o JsonDumps(medical_record) \o previous_hash)

\* compute_block_hash; timestamp is the text f"{timestamp}" puts in the string
compute_block_hash(index, timestamp, patient_id, medical_record_id, medical_record, previous_hash, validator_id) ==
    Sha256(IntStr(index) \o timestamp \o patient_id \o medical_record_id
           \o JsonDumps(medical_record) \o previous_hash \o validator_id)

\* ------------------------------------------------------------------ queries
MaxIndex(S) == CHOOSE m \in {b.index : b \in S} : \A b \in S : b.index <= m
MinIndex(S) == CHOOSE m \in {b.index : b \in S} : \A b \in S : m <= b.index

\* "SELECT * FROM c ORDER BY c.index DESC OFFSET 0 LIMIT 1": the item lists the
\* query can return; documents of equal index come in no defined order
TailItems(S) ==
    IF S = {} THEN {<<>>}
    ELSE {<<b>> : b \in {x \in S : x.index = MaxIndex(S)}}

RECURSIVE AscendingItems(_)
\* "SELECT * FROM c ORDER BY c.index ASC": the item lists the query can return
AscendingItems(S) ==
    IF S = {} THEN {<<>>}
    ELSE UNION { {<<b>> \o rest : rest \in AscendingItems(S \ {b})} :
                 b \in {x \in S : x.index = MinIndex(S)} }

\* upsert_item(doc) on the documents S of a container: a document of the same
\* id is replaced
Upsert(S, doc) == {d \in S : d.id # doc.id} \cup {doc}

\* ------------------------------------------------------------------ append
\* the check forgotten: every validator_id passes
AuthorizedAlways(validator_id, vs) == TRUE

\* validator_id in self.validators
Authorized(validator_id, vs) == validator_id \in Range(vs)

\* the two stamps create_block_with_medical_record puts on the caller's dict
Stamp(medical_record, t, user_id) ==
    DictSet(DictSet(medical_record, "created_date_utc", isoformat(t)),
            "created_by_id", user_id)

\* the increment forgotten: the tail's index is used again
NextIndexSame(items) == IF items # <<>> THEN items[1].index ELSE 1

\* (last_block['index'] + 1) if last_block else 1
NextIndex(items) == IF items # <<>> THEN items[1].index + 1 ELSE 1

\* the tail's previous_hash taken for its hash
PreviousHashOfTail(items) == IF items # <<>> THEN items[1].previous_hash ELSE "0"

\* last_block['hash'] if last_block else "0"
PreviousHash(items) == IF items # <<>> THEN items[1].hash ELSE "0"

\* upsert_item called a second time
BumpTwice(m) == calls' = [calls EXCEPT ![m] = @ + 2]

\* one more upsert_item on the container of medical records or of blocks
Bump(m) == calls' = [calls EXCEPT ![m] = @ + 1]

\* datetime.now(timezone.utc) read at or after instant t: the clock never
\* goes back, and stops at MaxClock
Now(t) == {t} \cup (IF t < MaxClock THEN {t + 1} ELSE {})

\* a task that runs no call takes the next one
Begin(p) ==
    /\ pc[p] = "idle"
    /\ nops < MaxOps
    /\ nops' = nops + 1

\* the call of task p ends: its outcome is what the caller sees
End(p, name, a, l, r) ==
    /\ last' = [op |-> name, args |-> a, local |-> l, ret |-> r]
    /\ pc' = [pc EXCEPT ![p] = "idle"]
    /\ args' = [args EXCEPT ![p] = NoArgs]
    /\ local' = [local EXCEPT ![p] = NoLocal]

\* the call of task p waits for a store call to return
Suspend(p, at, a, l) ==
    /\ pc' = [pc EXCEPT ![p] = at]
    /\ args' = [args EXCEPT ![p] = a]
    /\ local' = [local EXCEPT ![p] = l]
    /\ UNCHANGED last

\* the test forgotten: every payload is stored
HasTypeAlways(medical_record) == TRUE

\* 'type' in medical_record, as store_medical_record tests it
HasType(medical_record) == DictHas(medical_record, "type")

\* the error of upsert_item caught and the call carried on
PutRecordFailedQuietly(p, a, l) ==
    /\ Suspend(p, "tail", a, l)
    /\ UNCHANGED records

\* upsert_item of the medical record raises: nothing in store_medical_record
\* or create_block_with_medical_record catches it
PutRecordFailed(p, a, l) ==
    /\ End(p, "append", a, l, Raise(CosmosError))
    /\ UNCHANGED records

\* create_block_with_medical_record up to the return of store_medical_record
AppendCall(p, patient_id, medical_record, validator_id, user_id) ==
    LET a == [NoArgs EXCEPT !.patient_id = patient_id,
                            !.medical_record = medical_record,
                            !.validator_id = validator_id,
                            !.user_id = user_id]
        id == uuid4(nextUuid)
    IN /\ Begin(p)
       /\ IF ~Authorized(validator_id, validators)
          THEN /\ End(p, "append", a, NoLocal, Raise(Unauthorized))
               /\ UNCHANGED <<records, now, nextUuid, calls>>
          ELSE \E t \in Now(now) :
             LET stamped == Stamp(medical_record, t, user_id)
                 stored == DictSet(stamped, "id", id)
                 l == [NoLocal EXCEPT !.medical_record = stored,
                                      !.medical_record_id = id]
             IN /\ now' = t
                /\ IF ~HasType(stamped)
                   THEN /\ End(p, "append", a,
                               [NoLocal EXCEPT !.medical_record = stamped],
                               Raise(MissingType))
                        /\ UNCHANGED <<records, nextUuid, calls>>
                   ELSE /\ Bump("upsert_record")
                        /\ nextUuid' = nextUuid + 1
                        /\ \/ /\ records' = (id :> stored) @@ records
                              /\ Suspend(p, "tail", a, l)
                           \/ PutRecordFailed(p, a, l)
       /\ UNCHANGED <<validators, registry, ledger>>

\* get_last_block, called by create_block_with_medical_record
ReadTail(p) ==
    /\ pc[p] = "tail"
    /\ \/ \E items \in TailItems(ledger) :
             Suspend(p, "put", args[p], [local[p] EXCEPT !.items = items])
       \/ End(p, "append", args[p], local[p], Raise(CosmosError))
    /\ UNCHANGED <<validators, stores, now, nextUuid, calls, nops>>

\* lines 77-102: the Block made after the tail items was read, for a payload
\* stored as medical_record under medical_record_id; the clock reads t1 for
\* the timestamp that is hashed and t in Block.__init__
NewBlock(items, patient_id, medical_record_id, medical_record, validator_id, t1, t) ==
    LET previous_hash == PreviousHash(items)
        timestamp == isoformat(t1)
        hash_value ==
            compute_block_hash(NextIndex(items), timestamp, patient_id,
                               medical_record_id, medical_record,
                               previous_hash, validator_id)
    IN Block([index |-> NextIndex(items),
              timestamp |-> timestamp,
              patient_id |-> patient_id,
              medical_record_id |-> medical_record_id,
              previous_hash |-> previous_hash,
              validator_id |-> validator_id,
              hash |-> hash_value], t)

\* the medical record of the call deleted again before the raise
StoreBlockRefusedRolledBack(p) ==
    /\ End(p, "append", args[p], local[p], Raise(StoreBlockFailed))
    /\ records' = [id \in DOMAIN records \ {local[p].medical_record_id}
                      |-> records[id]]
    /\ UNCHANGED ledger

\* store_block returned False: the Exception of line 110 is raised, and
\* nothing is done about the medical record stored at line 73
StoreBlockRefused(p) ==
    /\ End(p, "append", args[p], local[p], Raise(StoreBlockFailed))
    /\ UNCHANGED <<ledger, records>>

\* create_block_with_medical_record from the tail read to its end: the clock
\* is read for timestamp, and again by Block.__init__
PutBlock(p) ==
    /\ pc[p] = "put"
    /\ \E t1 \in Now(now) : \E t \in Now(t1) :
          LET new_block ==
                  NewBlock(local[p].items, args[p].patient_id,
                           local[p].medical_record_id, local[p].medical_record,
                           args[p].validator_id, t1, t)
          IN /\ now' = t
             /\ Bump("upsert_block")
             /\ nextUuid' = nextUuid + 1
             /\ \/ /\ ledger' = Upsert(ledger, BlockDoc(new_block, uuid4(nextUuid)))
                   /\ End(p, "append", args[p], local[p], Return(new_block))
                   /\ UNCHANGED records
                \/ StoreBlockRefused(p)
    /\ UNCHANGED <<validators, registry, nops>>

\* ------------------------------------------------------------------ validators
\* the membership test forgotten: every id is stored again
AlreadyValidatorNever(validator_id, vs) == FALSE

\* validator_id in self.validators, as add_validator tests it
AlreadyValidator(validator_id, vs) == validator_id \in Range(vs)

\* the upsert reported as done without the Registry taking the id
store_validator_lost(validator_id, ok) ==
    /\ registry' = registry
    /\ calls' = [calls EXCEPT
                    !.add_validator[validator_id] = @ + 1,
                    !.upsert_validator[validator_id] = Append(@, ok)]

\* store_validator: the upsert succeeds (True) or CosmosHttpResponseError is
\* caught (False); calls keeps the results per id
store_validator(validator_id, ok) ==
    /\ registry' = IF ok THEN registry \cup {validator_id} ELSE registry
    /\ calls' = [calls EXCEPT
                    !.add_validator[validator_id] = @ + 1,
                    !.upsert_validator[validator_id] = Append(@, ok)]

\* add_validator up to the return of store_validator
AddValidatorCall(p, validator_id) ==
    LET a == [NoArgs EXCEPT !.validator_id = validator_id]
    IN /\ Begin(p)
       /\ IF ~AlreadyValidator(validator_id, validators)
          THEN \E ok \in BOOLEAN :
                  /\ store_validator(validator_id, ok)
                  /\ Suspend(p, "added", a,
                             [NoLocal EXCEPT !.asked = TRUE, !.stored = ok])
          ELSE /\ End(p, "add_validator", a, NoLocal, Return(None))
               /\ calls' = [calls EXCEPT !.add_validator[validator_id] = @ + 1]
               /\ UNCHANGED registry
       /\ UNCHANGED <<validators, records, ledger, now, nextUuid>>

\* the list replaced by the new id instead of extended
AddValidatorReturnReplaces(p) ==
    /\ pc[p] = "added"
    /\ validators' = IF local[p].stored
                     THEN <<args[p].validator_id>>
                     ELSE validators
    /\ End(p, "add_validator", args[p], local[p], Return(None))
    /\ UNCHANGED <<stores, now, nextUuid, calls, nops>>

\* the id appended whatever store_validator returned
AddValidatorReturnAlways(p) ==
    /\ pc[p] = "added"
    /\ validators' = Append(validators, args[p].validator_id)
    /\ End(p, "add_validator", args[p], local[p], Return(None))
    /\ UNCHANGED <<stores, now, nextUuid, calls, nops>>

\* add_validator after store_validator returned: True appends, False only logs
AddValidatorReturn(p) ==
    /\ pc[p] = "added"
    /\ validators' = IF local[p].stored
                     THEN Append(validators, args[p].validator_id)
                     ELSE validators
    /\ End(p, "add_validator", args[p], local[p], Return(None))
    /\ UNCHANGED <<stores, now, nextUuid, calls, nops>>

\* ------------------------------------------------------------------ validation
\* the system properties Cosmos adds to every document it returns
SystemProperties == << <<"_etag", "e">>, <<"_ts", "0">> >>

\* no key taken for a system property: the document is returned whole
StartsWithUnderscoreNever(k) == FALSE

\* key.startswith('_'), over the keys of KeyOrder
StartsWithUnderscore(k) == k \in {"_etag", "_ts"}

\* get_medical_record: read_item, then drop the keys that start with '_'
get_medical_record(recs, record_id) ==
    LET record_data == recs[record_id] \o SystemProperties
        keep(item) == ~StartsWithUnderscore(item[1])
    IN SelectSeq(record_data, keep)

\* the error of read_item answered with False
validate_block_quiet(block, recs, missing) ==
    IF block.medical_record_id \notin DOMAIN recs
       \/ block.medical_record_id \in missing
    THEN Return(FALSE)
    ELSE Return(compute_block_hash(block.index, DatetimeStr(block.timestamp),
                                   block.patient_id, block.medical_record_id,
                                   get_medical_record(recs, block.medical_record_id),
                                   block.previous_hash, block.validator_id)
                = block.hash)

\* validate_block; missing are the record ids read_item cannot return
validate_block(block, recs, missing) ==
    IF block.medical_record_id \notin DOMAIN recs
       \/ block.medical_record_id \in missing
    THEN Raise(CosmosError)
    ELSE LET medical_record == get_medical_record(recs, block.medical_record_id)
             recomputed_hash ==
                 compute_block_hash(block.index, DatetimeStr(block.timestamp),
                                    block.patient_id, block.medical_record_id,
                                    medical_record, block.previous_hash,
                                    block.validator_id)
         IN Return(recomputed_hash = block.hash)

\* the loop started one pair late: range(2, len(blockchain))
PairPositionsLate(blockchain) == 3..Len(blockchain)

\* range(1, len(blockchain)), as 1-based positions of current_block
PairPositions(blockchain) == 2..Len(blockchain)

\* the comparison left out: every link passes
LinkBrokenNever(current_block, previous_block) == FALSE

\* current_block.previous_hash != previous_block.hash
LinkBroken(current_block, previous_block) ==
    current_block.previous_hash # previous_block.hash

RECURSIVE ValidateFromLinkFirst(_, _, _, _)
\* the two tests of the loop in the other order
ValidateFromLinkFirst(blockchain, i, recs, missing) ==
    IF i \notin PairPositions(blockchain) THEN Return(TRUE)
    ELSE LET current_block == blockchain[i]
             previous_block == blockchain[i - 1]
             checked == validate_block(current_block, recs, missing)
         IN IF LinkBroken(current_block, previous_block) THEN Return(FALSE)
            ELSE IF checked.kind = "raise" THEN checked
            ELSE IF ~checked.val THEN Return(FALSE)
            ELSE ValidateFromLinkFirst(blockchain, i + 1, recs, missing)

RECURSIVE ValidateFrom(_, _, _, _)
\* the loop of validate_blockchain from position i on
ValidateFrom(blockchain, i, recs, missing) ==
    IF i \notin PairPositions(blockchain) THEN Return(TRUE)
    ELSE LET current_block == blockchain[i]
             previous_block == blockchain[i - 1]
             checked == validate_block(current_block, recs, missing)
         IN IF checked.kind = "raise" THEN checked
            ELSE IF ~checked.val THEN Return(FALSE)
            ELSE IF LinkBroken(current_block, previous_block)
                 THEN Return(FALSE)
            ELSE ValidateFrom(blockchain, i + 1, recs, missing)

\* the first block validated as well, before the loop
validate_blockchain_all(blockchain, recs, missing) ==
    LET first == IF blockchain = <<>> THEN Return(TRUE)
                 ELSE validate_block(blockchain[1], recs, missing)
    IN IF first # Return(TRUE) THEN first
       ELSE ValidateFrom(blockchain, 2, recs, missing)

\* validate_blockchain on the blocks get_blockchain returned
validate_blockchain(blockchain, recs, missing) ==
    ValidateFrom(blockchain, 2, recs, missing)

\* [Block(**item) for item in items], all constructed at instant t
Blocks(items, t) == [i \in 1..Len(items) |-> Block(items[i], t)]

\* the record ids a read of the Content Store may fail on: none, or one
MissingSets == {{}} \cup {{r} : r \in DOMAIN records}

\* get_blockchain
GetChain(p) ==
    /\ Begin(p)
    /\ \/ \E items \in AscendingItems(ledger), t \in Now(now) :
             /\ now' = t
             /\ End(p, "get_chain", NoArgs,
                    [NoLocal EXCEPT !.items = items],
                    Return(Blocks(items, t)))
       \/ /\ End(p, "get_chain", NoArgs, NoLocal, Raise(CosmosError))
          /\ UNCHANGED now
    /\ UNCHANGED <<validators, stores, nextUuid, calls>>

\* validate_blockchain
ValidateChain(p) ==
    /\ Begin(p)
    /\ \/ \E items \in AscendingItems(ledger), missing \in MissingSets,
             t \in Now(now) :
             /\ now' = t
             /\ End(p, "validate_chain", NoArgs,
                    [NoLocal EXCEPT !.blockchain = Blocks(items, t),
                                    !.missing = missing],
                    validate_blockchain(Blocks(items, t), records, missing))
       \/ /\ End(p, "validate_chain", NoArgs, NoLocal, Raise(CosmosError))
          /\ UNCHANGED now
    /\ UNCHANGED <<validators, stores, nextUuid, calls>>

\* the data a caller can build a Block from: a stored document as it is, or
\* with one of its fields replaced
Altered(d) ==
    {d}
    \cup {[d EXCEPT !.index = d.index + 1]}
    \cup {[d EXCEPT !.patient_id = "patient_001"]}
    \cup {[d EXCEPT !.medical_record_id = x] :
             x \in DOMAIN records \ {d.medical_record_id}}
    \cup {[d EXCEPT !.previous_hash = "previous_hash"]}
    \cup {[d EXCEPT !.validator_id = x] : x \in ValidatorIds \ {d.validator_id}}
    \cup {[d EXCEPT !.hash = "wrong_hash"]}

\* a Block whose hash the caller made match its other fields and the stored
\* payload, as test_validate_correct_block arranges
Sealed(block) ==
    [block EXCEPT !.hash =
        compute_block_hash(block.index, DatetimeStr(block.timestamp),
                           block.patient_id, block.medical_record_id,
                           get_medical_record(records, block.medical_record_id),
                           block.previous_hash, block.validator_id)]

\* validate_block(block)
ValidateBlock(p, block) ==
    /\ Begin(p)
    /\ \E missing \in {{}, {block.medical_record_id}} :
          LET checked == validate_block(block, records, missing)
          IN End(p, "validate_block", [NoArgs EXCEPT !.block = block],
                 [NoLocal EXCEPT
                     !.missing = missing,
                     !.medical_record =
                         IF checked.kind = "raise" THEN <<>>
                         ELSE get_medical_record(records, block.medical_record_id)],
                 checked)
    /\ UNCHANGED <<validators, stores, nextUuid, calls>>

\* validate_block on a block read back from the Ledger Store
ValidateStoredBlock(p) ==
    \E d \in ledger, t \in Now(now) :
       /\ now' = t
       /\ ValidateBlock(p, Block(d, t))

\* ------------------------------------------------------------------ environment
\* someone writes to the Content Store behind the engine's back, once: the
\* value of 'type' of one stored record is replaced
TamperRecord(id) ==
    /\ id \in DOMAIN records
    /\ \A r \in DOMAIN records : DictGet(records[r], "type") # "Altered"
    /\ records' = [records EXCEPT ![id] = DictSet(@, "type", "Altered")]
    /\ UNCHANGED <<validators, registry, ledger, now, nextUuid, calls, nops,
                   tasks, last>>

\* document d with the hash validate_block recomputes for it at instant t
Resealed(d, t) == [d EXCEPT !.hash = Sealed(Block(d, t)).hash]

RECURSIVE Relinked(_, _, _)
\* the documents items rewritten for a validation at instant t: each takes
\* the hash of the rewritten document before it as previous_hash ("0" for
\* the first), the one at position broken takes another value, and each is
\* hashed again
Relinked(items, t, broken) ==
    IF items = <<>> THEN <<>>
    ELSE LET front == Relinked(SubSeq(items, 1, Len(items) - 1), t, broken)
             previous_hash ==
                 IF Len(items) = broken THEN "previous_hash"
                 ELSE IF front = <<>> THEN "0"
                 ELSE front[Len(front)].hash
         IN Append(front, Resealed([items[Len(items)] EXCEPT
                                       !.previous_hash = previous_hash], t))

\* someone rewrites the Ledger Store behind the engine's back, once: the
\* chain is relinked and rehashed for a validation to come, with no link or
\* with one link broken
TamperLedger ==
    /\ ledger # {}
    /\ \A b \in ledger : \A t \in 0..MaxClock : b # Resealed(b, t)
    /\ \E items \in AscendingItems(ledger), t \in now..MaxClock,
          broken \in 0..Cardinality(ledger) :
          ledger' = Range(Relinked(items, t, broken))
    /\ UNCHANGED <<validators, registry, records, now, nextUuid, calls, nops,
                   tasks, last>>

\* ------------------------------------------------------------------ behaviours
\* get_validators: the ids of the registry, or [] when the read fails
get_validators(reg) == {<<>>} \cup {<<v>> : v \in reg}

NoCall == [op |-> "none", args |-> NoArgs, local |-> NoLocal, ret |-> Running]

\* BlockchainService.__init__ over a registry that holds no id or one id, with
\* the Content Store and the Ledger Store empty
Init ==
    /\ registry \in {{}, {"V1"}}
    /\ validators \in (IF registry = {} THEN {<<>>} ELSE get_validators(registry))
    /\ records = <<>>
    /\ ledger = {}
    /\ now = 0
    /\ nextUuid = 1
    /\ calls = [upsert_record |-> 0, upsert_block |-> 0,
                upsert_validator |-> [v \in ValidatorIds |-> <<>>],
                add_validator |-> [v \in ValidatorIds |-> 0]]
    /\ nops = 0
    /\ pc = [p \in Procs |-> "idle"]
    /\ args = [p \in Procs |-> NoArgs]
    /\ local = [p \in Procs |-> NoLocal]
    /\ last = NoCall

\* a task starts a call of the engine's chain operations
Call(p) ==
    \/ \E patient_id \in PatientIds, medical_record \in Payloads,
          validator_id \in ValidatorIds, user_id \in UserIds :
          AppendCall(p, patient_id, medical_record, validator_id, user_id)
    \/ \E validator_id \in ValidatorIds : AddValidatorCall(p, validator_id)
    \/ GetChain(p)
    \/ ValidateChain(p)

\* a task's engine call goes on after a store call returned
Resume(p) ==
    \/ ReadTail(p)
    \/ PutBlock(p)
    \/ AddValidatorReturn(p)

\* requests are served concurrently
Next ==
    \/ \E p \in Procs : Call(p)
    \/ \E p \in Procs : Resume(p)

Spec == Init /\ [][Next]_vars

\* no engine call is in progress
Idle == \A p \in Procs : pc[p] = "idle"

\* requests are served one at a time: a call starts when the last one ended
SeqNext ==
    \/ \E p \in Procs, patient_id \in PatientIds, medical_record \in Payloads,
          validator_id \in ValidatorIds, user_id \in UserIds :
          Idle /\ AppendCall(p, patient_id, medical_record, validator_id, user_id)
    \/ \E p \in Procs, validator_id \in ValidatorIds :
          Idle /\ AddValidatorCall(p, validator_id)
    \/ \E p \in Procs : Idle /\ GetChain(p)
    \/ \E p \in Procs : Idle /\ ValidateChain(p)
    \/ \E p \in Procs : Resume(p)

SeqSpec == Init /\ [][SeqNext]_vars

\* the block validate_block accepted last, which a caller can hand in again as
\* it is or with one of its fields replaced
Resubmitted ==
    IF last.op = "validate_block" /\ last.ret = Return(TRUE)
    THEN Altered(last.args.block) ELSE {}

\* a task hands validate_block a block it builds from a stored document, or
\* from the fields of the block validated last
CallValidateBlock(p) ==
    \E d \in ledger, t \in Now(now) : \E data \in Altered(d) \cup Resubmitted :
       /\ now' = t
       /\ \/ ValidateBlock(p, Block(data, t))
          \/ ValidateBlock(p, Sealed(Block(data, t)))

\* the one task that makes the calls when blocks are validated one by one
Client == "t1"

\* one client appends blocks and validates them one by one, and the Content
\* Store can be written to from outside
ValNext ==
    \/ \E patient_id \in PatientIds, medical_record \in Payloads,
          validator_id \in ValidatorIds, user_id \in UserIds :
          AppendCall(Client, patient_id, medical_record, validator_id, user_id)
    \/ ReadTail(Client)
    \/ PutBlock(Client)
    \/ CallValidateBlock(Client)
    \/ \E id \in DOMAIN records : TamperRecord(id)

ValSpec == Init /\ [][ValNext]_vars

\* one client appends blocks and validates the chain or one stored block, and
\* the Ledger Store can be written to from outside
ChainNext ==
    \/ \E patient_id \in PatientIds, medical_record \in Payloads,
          validator_id \in ValidatorIds, user_id \in UserIds :
          AppendCall(Client, patient_id, medical_record, validator_id, user_id)
    \/ ReadTail(Client)
    \/ PutBlock(Client)
    \/ ValidateChain(Client)
    \/ ValidateStoredBlock(Client)
    \/ TamperLedger

ChainSpec == Init /\ [][ChainNext]_vars

\* the payload of the blocks appended before the engine was constructed
PriorPayload == << <<"type", "Exam">>, <<"note", "ok">> >>

\* the k-th medical record stored before the engine was constructed: stamped
\* at instant 0 for user U1 and stored under the (2k-1)-th identifier
PriorRecord(k) ==
    DictSet(Stamp(PriorPayload, 0, "U1"), "id", uuid4(2 * k - 1))

RECURSIVE PriorRecords(_)
\* the Content Store after n such appends
PriorRecords(n) ==
    IF n = 0 THEN <<>>
    ELSE (uuid4(2 * n - 1) :> PriorRecord(n)) @@ PriorRecords(n - 1)

RECURSIVE PriorDocs(_)
\* the documents of the Ledger Store after n appends made one after the other
\* by validator V1 for patient P1 at instant 0, in ascending index order
PriorDocs(n) ==
    IF n = 0 THEN <<>>
    ELSE LET front == PriorDocs(n - 1)
             items == IF front = <<>> THEN <<>> ELSE <<front[n - 1]>>
         IN Append(front,
                   BlockDoc(NewBlock(items, "P1", uuid4(2 * n - 1),
                                     PriorRecord(n), "V1", 0, 0),
                            uuid4(2 * n)))

\* BlockchainService.__init__ over stores that hold a chain of up to MaxPrior
\* blocks appended earlier, with V1 in the Registry
AuditInit ==
    \E n \in 0..MaxPrior :
       /\ registry = {"V1"}
       /\ validators = <<"V1">>
       /\ records = PriorRecords(n)
       /\ ledger = Range(PriorDocs(n))
       /\ now = 0
       /\ nextUuid = 2 * n + 1
       /\ calls = [upsert_record |-> 0, upsert_block |-> 0,
                   upsert_validator |-> [v \in ValidatorIds |-> <<>>],
                   add_validator |-> [v \in ValidatorIds |-> 0]]
       /\ nops = 0
       /\ pc = [p \in Procs |-> "idle"]
       /\ args = [p \in Procs |-> NoArgs]
       /\ local = [p \in Procs |-> NoLocal]
       /\ last = NoCall

\* one client validates a chain found in the stores, and the Ledger Store
\* can be written to from outside
AuditNext ==
    \/ ValidateChain(Client)
    \/ TamperLedger

AuditSpec == AuditInit /\ [][AuditNext]_vars

\* the payloads handed to the Hash Engine: two mappings, each with its keys
\* inserted in either order
HashPayloads ==
    { << <<"type", "Exam">>, <<"note", "ok">> >>,
      << <<"note", "ok">>, <<"type", "Exam">> >>,
      << <<"type", "Exam">>, <<"note", "bad">> >>,
      << <<"note", "bad">>, <<"type", "Exam">> >> }

\* the other arguments handed to the Hash Engine
HashFields ==
    [index : {1, 2},
     timestamp : {isoformat(t) : t \in 0..MaxClock},
     medical_record_id : {uuid4(1), uuid4(2)},
     previous_hash : {"0", "previous_hash"}]

\* compute_block_hash called on its own
ComputeHash(p, f, patient_id, medical_record, validator_id) ==
    /\ Begin(p)
    /\ End(p, "compute_block_hash",
           [NoArgs EXCEPT !.patient_id = patient_id,
                          !.medical_record = medical_record,
                          !.validator_id = validator_id,
                          !.block = f],
           NoLocal,
           Return(compute_block_hash(f.index, f.timestamp, patient_id,
                                     f.medical_record_id, medical_record,
                                     f.previous_hash, validator_id)))
    /\ UNCHANGED <<validators, stores, now, nextUuid, calls>>

\* one client calls the Hash Engine again and again
HashNext ==
    \E f \in HashFields, patient_id \in PatientIds,
       medical_record \in HashPayloads, validator_id \in ValidatorIds :
       ComputeHash(Client, f, patient_id, medical_record, validator_id)

HashSpec == Init /\ [][HashNext]_vars

\* ------------------------------------------------------------------ claims
\* how often v occurs in the list vs
Occurrences(vs, v) == Cardinality({i \in 1..Len(vs) : vs[i] = v})

\* this step starts an append for validator v: the call either ended at once
\* or waits for its first store call
AppendBegan(v) ==
    /\ nops' = nops + 1
    /\ \/ /\ pc' = pc
          /\ last'.op = "append"
          /\ last'.args.validator_id = v
       \/ \E p \in Procs :
             /\ pc[p] = "idle"
             /\ pc'[p] = "tail"
             /\ args'[p].validator_id = v

\* C1: an append whose validator_id is not in the in-memory validator list
\* ends at once with the Unauthorized ValueError; it makes no upsert and
\* leaves the Content Store, the Ledger Store, the Registry and the list as
\* they were.
C1_UnauthorizedAppendChangesNothing ==
    [][\A v \in ValidatorIds :
          (AppendBegan(v) /\ v \notin Range(validators))
          => /\ last'.ret = Raise(Unauthorized)
             /\ pc' = pc
             /\ UNCHANGED <<validators, registry, records, ledger, calls>>]_vars

\* an unauthorized append was refused while the stores already held data
C1_Witness ==
    /\ last.op = "append"
    /\ last.ret = Raise(Unauthorized)
    /\ ledger # {}

\* the blocks in ascending index order start at index 1 with previous_hash "0"
\* and each next one follows its predecessor by index and by hash
Linked(items) ==
    /\ items # <<>> => (items[1].index = 1 /\ items[1].previous_hash = "0")
    /\ \A i \in 2..Len(items) :
          /\ items[i].index = items[i - 1].index + 1
          /\ items[i].previous_hash = items[i - 1].hash

\* C2: with appends executed one at a time from an empty ledger, the persisted
\* blocks in ascending index order are linked: index 1 and previous_hash "0"
\* first, then index + 1 and previous_hash = the predecessor's hash.
C2_SequentialChainIsLinked ==
    \A items \in AscendingItems(ledger) : Linked(items)

\* two blocks were appended one after the other
C2_Witness == Cardinality(ledger) >= 2

\* C3: the persisted blocks never hold two blocks of the same index, and their
\* indices are exactly 1..n.
C3_IndicesUniqueAndGapless ==
    /\ \A a, b \in ledger : a.index = b.index => a = b
    /\ {b.index : b \in ledger} = 1..Cardinality(ledger)

\* C4: a successful append returns a block linked to the tail read in that
\* call: index = tail.index + 1 and previous_hash = tail.hash, or index 1 and
\* previous_hash "0" when the read found the Ledger Store empty.
C4_ReturnedBlockLinkedToTailRead ==
    (last.op = "append" /\ last.ret.kind = "return")
    => LET block == last.ret.val
           items == last.local.items
       IN IF items = <<>>
          THEN block.index = 1 /\ block.previous_hash = "0"
          ELSE /\ block.index = items[1].index + 1
               /\ block.previous_hash = items[1].hash

\* an append that read a tail returned its block
C4_Witness ==
    /\ last.op = "append"
    /\ last.ret.kind = "return"
    /\ last.local.items # <<>>

\* the block handed to validate_block is a persisted block as get_blockchain
\* rebuilds it
Unmodified(block) == \E d \in ledger : block = Block(d, block.timestamp)

\* C5: validate_block returns true for a block persisted by a successful
\* append and read back unmodified, its stored payload untouched.
C5_StoredBlockValidates ==
    (/\ last.op = "validate_block"
     /\ last.ret.kind = "return"
     /\ Unmodified(last.args.block)
     /\ DictGet(last.local.medical_record, "type") # "Altered")
    => last.ret.val = TRUE

\* C6: after sequential appends and no tampering, get_chain returns the n
\* persisted blocks linked in ascending index order and validate_chain
\* returns true.
C6_SequentialChainValidates ==
    /\ (last.op = "get_chain" /\ last.ret.kind = "return")
       => /\ Len(last.ret.val) = Cardinality(ledger)
          /\ Linked(last.ret.val)
    /\ (last.op = "validate_chain" /\ last.ret.kind = "return")
       => last.ret.val = TRUE

BlockFields ==
    {"index", "timestamp", "patient_id", "medical_record_id", "previous_hash",
     "validator_id", "hash"}

\* validation y is validation x with exactly one thing changed: one field of
\* the block (the payload fetched follows medical_record_id), or the payload
OneChange(x, y) ==
    LET changed == {f \in BlockFields : x.args.block[f] # y.args.block[f]}
    IN \/ changed = {"medical_record_id"}
       \/ /\ Cardinality(changed) = 1
          /\ x.local.medical_record = y.local.medical_record
       \/ /\ changed = {}
          /\ x.local.medical_record # y.local.medical_record

\* the fingerprint of the fields of block and of payload
Fingerprint(block, payload) ==
    compute_block_hash(block.index, DatetimeStr(block.timestamp),
                       block.patient_id, block.medical_record_id, payload,
                       block.previous_hash, block.validator_id)

Mismatch(blockchain) ==
    \E i \in 2..Len(blockchain) :
       blockchain[i].previous_hash # blockchain[i - 1].hash

\* C8: when some block other than the first has a previous_hash that differs
\* from the hash of the block before it in ascending index order, a
\* validate_chain that returns returns false.
C8_MismatchMakesChainInvalid ==
    (/\ last.op = "validate_chain"
     /\ last.ret.kind = "return"
     /\ Mismatch(last.local.blockchain))
    => last.ret.val = FALSE

\* validate_chain returned false on a chain with a broken link, every block
\* of which passes validate_block
C8_Witness ==
    /\ last.op = "validate_chain"
    /\ last.ret = Return(FALSE)
    /\ Mismatch(last.local.blockchain)
    /\ \A i \in 1..Len(last.local.blockchain) :
          validate_block(last.local.blockchain[i], records, last.local.missing)
             = Return(TRUE)

\* C9 as stated: two add_validator calls with the same id make exactly one
\* Registry upsert and leave the id exactly once in the list.
C9_TwoCallsOneUpsert ==
    \A v \in ValidatorIds :
       (Idle /\ calls.add_validator[v] = 2)
       => /\ Len(calls.upsert_validator[v]) = 1
          /\ Occurrences(validators, v) = 1

\* C9 amended: with calls made one after the other, once the first Registry
\* upsert for an id succeeded no further upsert is made for it and the id is
\* exactly once in the list; and a call with an id already in the list ends
\* at once, makes no store call and changes nothing.
C9_RegisteredIdIsNotStoredAgain ==
    /\ [](\A v \in ValidatorIds :
            (/\ Idle
             /\ calls.upsert_validator[v] # <<>>
             /\ calls.upsert_validator[v][1])
            => /\ Len(calls.upsert_validator[v]) = 1
               /\ Occurrences(validators, v) = 1)
    /\ [][\A v \in ValidatorIds :
            (/\ calls'.add_validator[v] = calls.add_validator[v] + 1
             /\ v \in Range(validators))
            => /\ pc' = pc
               /\ last'.ret = Return(None)
               /\ calls'.upsert_validator = calls.upsert_validator
               /\ UNCHANGED <<validators, registry, records, ledger>>]_vars

\* add_validator ran twice for an id: the first call stored it, the second
\* found it in the list
C9_Witness ==
    \E v \in ValidatorIds :
       /\ Idle
       /\ calls.add_validator[v] = 2
       /\ calls.upsert_validator[v] = <<TRUE>>
       /\ Occurrences(validators, v) = 1

\* C10: when the Registry upsert of add_validator fails, the outcome of the
\* call differs from that of a successful registration (which returns None)
\* and the in-memory list is as it was.
C10_FailedRegistrationIsReported ==
    (/\ last.op = "add_validator"
     /\ last.local.asked
     /\ ~last.local.stored)
    => /\ last.ret # Return(None)
       /\ last.args.validator_id \notin Range(validators)

\* this step makes the Content Store put of an append, and the put fails
RecordPutFails ==
    /\ calls'.upsert_record = calls.upsert_record + 1
    /\ records' = records

\* C11: when the Content Store put of an append fails, the call ends at once
\* with the error of the store, without reading the Ledger Store and without
\* a Ledger Store put; the Ledger Store and the validator list are as before.
C11_FailedRecordPutEndsAppend ==
    [][RecordPutFails
       => /\ last'.op = "append"
          /\ last'.ret = Raise(CosmosError)
          /\ pc' = pc
          /\ calls'.upsert_block = calls.upsert_block
          /\ UNCHANGED <<ledger, validators, registry>>]_vars

\* an append ended with the error of a failed Content Store put, while the
\* Ledger Store already held a block
C11_Witness ==
    /\ last.op = "append"
    /\ last.ret = Raise(CosmosError)
    /\ last.local.medical_record_id # ""
    /\ last.local.medical_record_id \notin DOMAIN records
    /\ ledger # {}

\* this step makes the Ledger Store put of an append, and the put fails
BlockPutFails ==
    /\ calls'.upsert_block = calls.upsert_block + 1
    /\ ledger' = ledger

\* C12: when the Ledger Store put of an append fails, the call ends with the
\* Exception "Failed to store the new block" and returns no block, the Ledger
\* Store is as before, and the medical record this call stored is still in
\* the Content Store, referenced by no block.
C12_FailedBlockPutKeepsRecord ==
    [][BlockPutFails
       => /\ last'.op = "append"
          /\ last'.ret = Raise(StoreBlockFailed)
          /\ records' = records
          /\ last'.local.medical_record_id \in DOMAIN records'
          /\ records'[last'.local.medical_record_id]
                = last'.local.medical_record
          /\ \A b \in ledger' :
                b.medical_record_id # last'.local.medical_record_id]_vars

\* an append failed at its Ledger Store put after another append had stored
\* its block: the Content Store holds one record more than the Ledger Store
\* holds blocks
C12_Witness ==
    /\ last.op = "append"
    /\ last.ret = Raise(StoreBlockFailed)
    /\ ledger # {}
    /\ last.local.medical_record_id \in DOMAIN records
    /\ \A b \in ledger : b.medical_record_id # last.local.medical_record_id

\* the loop of validate_blockchain gets to position i: every block before it,
\* from the second on, passed validate_block and the comparison of the hashes
Reached(blockchain, i, recs, missing) ==
    /\ i \in PairPositions(blockchain)
    /\ \A j \in 2..(i - 1) :
          /\ validate_block(blockchain[j], recs, missing) = Return(TRUE)
          /\ ~LinkBroken(blockchain[j], blockchain[j - 1])

\* C13: when the Content Store cannot return the payload a block refers to,
\* validate_block ends with the error of the store, not with true or false,
\* and a validate_chain whose loop gets to that block ends with the same
\* error.
C13_MissingPayloadPropagates ==
    /\ (/\ last.op = "validate_block"
        /\ last.args.block.medical_record_id \in last.local.missing)
       => last.ret = Raise(CosmosError)
    /\ (/\ last.op = "validate_chain"
        /\ \E i \in 1..Len(last.local.blockchain) :
              /\ Reached(last.local.blockchain, i, records, last.local.missing)
              /\ last.local.blockchain[i].medical_record_id
                    \in last.local.missing)
       => last.ret = Raise(CosmosError)

\* validate_chain ended with the error of the Content Store on a chain it
\* could read
C13_Witness ==
    /\ last.op = "validate_chain"
    /\ last.ret = Raise(CosmosError)
    /\ \E i \in 1..Len(last.local.blockchain) :
          /\ Reached(last.local.blockchain, i, records, last.local.missing)
          /\ last.local.blockchain[i].medical_record_id \in last.local.missing

\* this step starts an append for validator v with payload m: the call either
\* ended at once or waits for its first store call
AppendBeganWith(v, m) ==
    /\ nops' = nops + 1
    /\ \/ /\ pc' = pc
          /\ last'.op = "append"
          /\ last'.args.validator_id = v
          /\ last'.args.medical_record = m
       \/ \E p \in Procs :
             /\ pc[p] = "idle"
             /\ pc'[p] = "tail"
             /\ args'[p].validator_id = v
             /\ args'[p].medical_record = m

\* C14: an append by a validator of the list with a payload that has no
\* 'type' key ends at once with the ValueError of store_medical_record; no
\* upsert is made and neither the Content Store nor the Ledger Store changes.
C14_MissingTypeRejectedBeforePersistence ==
    [][\A v \in ValidatorIds, m \in Payloads :
          (/\ AppendBeganWith(v, m)
           /\ v \in Range(validators)
           /\ "type" \notin DictKeys(m))
          => /\ last'.ret = Raise(MissingType)
             /\ pc' = pc
             /\ UNCHANGED <<records, ledger, calls>>]_vars

\* a payload without 'type' was refused while the stores already held data
C14_Witness ==
    /\ last.op = "append"
    /\ last.ret = Raise(MissingType)
    /\ "type" \notin DictKeys(last.args.medical_record)
    /\ last.args.validator_id \in Range(validators)
    /\ ledger # {}

\* the hash of block is the fingerprint of its own fields and of the payload
\* stored under its medical_record_id, the timestamp it carries written as
\* isoformat() or as str() writes it
HashOfOwnFields(block) ==
    /\ block.medical_record_id \in DOMAIN records
    /\ \E timestamp \in {isoformat(block.timestamp),
                          DatetimeStr(block.timestamp)} :
          block.hash =
             compute_block_hash(block.index, timestamp, block.patient_id,
                                block.medical_record_id,
                                records[block.medical_record_id],
                                block.previous_hash, block.validator_id)

\* C15: every block an append returned and every block of the Ledger Store
\* has the hash of its own fields and stored payload; the timestamp it
\* carries is the timestamp that was hashed.
C15_HashIsOfOwnFields ==
    /\ (last.op = "append" /\ last.ret.kind = "return")
       => HashOfOwnFields(last.ret.val)
    /\ \A d \in ledger : HashOfOwnFields(d)

\* this step is the successful Ledger Store put of an append
BlockPutSucceeds ==
    /\ calls'.upsert_block = calls.upsert_block + 1
    /\ last'.op = "append"
    /\ last'.ret.kind = "return"

\* C16: no step of an engine operation removes or changes a block of the
\* Ledger Store or a record of the Content Store, and a successful append
\* adds exactly one block, which carries the fields of the block returned.
C16_AppendOnly ==
    [][/\ ledger \subseteq ledger'
       /\ \A id \in DOMAIN records :
             /\ id \in DOMAIN records'
             /\ records'[id] = records[id]
       /\ BlockPutSucceeds
          => \E d \in ledger' \ ledger :
                /\ ledger' = ledger \cup {d}
                /\ Block(d, d.timestamp) = last'.ret.val]_vars

\* an append returned its block after another block had been stored, with
\* both blocks and both records in the stores
C16_Witness ==
    /\ last.op = "append"
    /\ last.ret.kind = "return"
    /\ Cardinality(ledger) >= 2
    /\ Cardinality(DOMAIN records) >= 2

\* C17: once an add_validator whose Registry upsert succeeded has returned,
\* its id is in the in-memory list and in the Registry; neither ever loses
\* an id; and no append for an id of the list ends at the authorization
\* check.
C17_RegisteredValidatorIsAuthorized ==
    /\ []((/\ last.op = "add_validator"
           /\ last.local.asked
           /\ last.local.stored)
          => /\ last.args.validator_id \in Range(validators)
             /\ last.args.validator_id \in registry)
    /\ [][/\ Range(validators) \subseteq Range(validators')
          /\ registry \subseteq registry'
          /\ \A v \in ValidatorIds :
                (AppendBegan(v) /\ v \in Range(validators))
                => ~(pc' = pc /\ last'.ret = Raise(Unauthorized))]_vars

\* a validator registered by add_validator appended a block
C17_Witness ==
    /\ last.op = "append"
    /\ last.ret.kind = "return"
    /\ \E i \in 1..Len(calls.upsert_validator[last.args.validator_id]) :
          calls.upsert_validator[last.args.validator_id][i]
    /\ last.args.validator_id \in Range(validators)

\* C18: a successful append goes through one Content Store put, the tail
\* read and one Ledger Store put, and no other upsert; the block returned
\* carries the patient_id and validator_id of the call and the id under
\* which that Content Store put stored the payload.
C18_OnePutEachAndOwnFields ==
    /\ []((last.op = "append" /\ last.ret.kind = "return")
          => /\ last.ret.val.patient_id = last.args.patient_id
             /\ last.ret.val.validator_id = last.args.validator_id
             /\ last.ret.val.medical_record_id = last.local.medical_record_id
             /\ last.local.medical_record_id \in DOMAIN records)
    /\ [][\A p \in Procs :
            /\ (pc[p] = "idle" /\ pc'[p] = "tail")
               => /\ calls' = [calls EXCEPT !.upsert_record = @ + 1]
                  /\ DOMAIN records' \ DOMAIN records
                        = {local'[p].medical_record_id}
            /\ (pc[p] = "tail" /\ pc'[p] = "put")
               => /\ calls' = calls
                  /\ local'[p].medical_record_id = local[p].medical_record_id
            /\ (pc[p] = "put" /\ pc'[p] = "idle" /\ last'.ret.kind = "return")
               => /\ calls' = [calls EXCEPT !.upsert_block = @ + 1]
                  /\ last'.local.medical_record_id
                        = local[p].medical_record_id]_vars

\* the second successful append returned: two puts were made on each store
C18_Witness ==
    /\ last.op = "append"
    /\ last.ret.kind = "return"
    /\ last.ret.val.index = 2
    /\ calls.upsert_record = 2
    /\ calls.upsert_block = 2

\* x and y are equal as mappings: the same keys with the same values
EqualAsMappings(x, y) ==
    /\ DictKeys(x) = DictKeys(y)
    /\ \A k \in DictKeys(x) : DictGet(x, k) = DictGet(y, k)

\* C19: two calls of compute_block_hash with the same index, timestamp,
\* patient_id, medical_record_id, previous_hash and validator_id and with
\* payloads equal as mappings, whatever the insertion order of their keys,
\* return the same digest.
C19_HashIgnoresKeyOrder ==
    [][(/\ last.op = "compute_block_hash"
        /\ last'.op = "compute_block_hash"
        /\ nops' = nops + 1
        /\ last'.args.block = last.args.block
        /\ last'.args.patient_id = last.args.patient_id
        /\ last'.args.validator_id = last.args.validator_id
        /\ EqualAsMappings(last.args.medical_record, last'.args.medical_record))
       => last'.ret = last.ret]_vars

\* the Hash Engine returned, for a payload, the digest it returns for the
\* same mapping with its keys inserted in another order
C19_Witness ==
    /\ last.op = "compute_block_hash"
    /\ nops >= 2
    /\ \E m \in HashPayloads :
          /\ m # last.args.medical_record
          /\ EqualAsMappings(m, last.args.medical_record)
          /\ last.ret.val =
                compute_block_hash(last.args.block.index,
                                   last.args.block.timestamp,
                                   last.args.patient_id,
                                   last.args.block.medical_record_id, m,
                                   last.args.block.previous_hash,
                                   last.args.validator_id)

\* C20: validate_chain returns true only if every block get_blockchain
\* returned, the first one included, passes validate_block.
C20_TrueOnlyIfEveryBlockValidates ==
    (last.op = "validate_chain" /\ last.ret = Return(TRUE))
    => \A i \in 1..Len(last.local.blockchain) :
          validate_block(last.local.blockchain[i], records, last.local.missing)
             = Return(TRUE)

PairFails(blockchain, i, recs, missing) ==
    \/ validate_block(blockchain[i], recs, missing) # Return(TRUE)
    \/ LinkBroken(blockchain[i], blockchain[i - 1])

\* C22: validate_chain goes through the pairs in ascending index order and
\* ends at the first pair that fails: with the outcome of validate_block on
\* the current block when that is an error or false (the previous_hash
\* comparison comes second), else with false; the payloads of later blocks
\* are not fetched, so their being missing changes nothing.
C22_FirstFailingPairDecides ==
    (last.op = "validate_chain" /\ last.local.blockchain # <<>>)
    => \A i \in 2..Len(last.local.blockchain) :
          LET blockchain == last.local.blockchain
              missing == last.local.missing
              checked == validate_block(blockchain[i], records, missing)
          IN (/\ Reached(blockchain, i, records, missing)
              /\ PairFails(blockchain, i, records, missing))
             => last.ret = (IF checked.kind = "raise" THEN checked
                            ELSE Return(FALSE))

\* validate_chain returned false at the second block although the Content
\* Store could not return the payload of the third
C22_Witness ==
    /\ last.op = "validate_chain"
    /\ last.ret = Return(FALSE)
    /\ Len(last.local.blockchain) >= 3
    /\ PairFails(last.local.blockchain, 2, records, last.local.missing)
    /\ last.local.blockchain[3].medical_record_id \in last.local.missing

\* C23: the in-memory validator list changes only in the step that ends an
\* add_validator call, and only by one id appended; every other step of every
\* operation leaves it as it is, so no id is ever removed.
C23_OnlyAddValidatorExtendsList ==
    [][validators' # validators
       => \E p \in Procs :
             /\ pc[p] = "added"
             /\ pc'[p] = "idle"
             /\ last'.op = "add_validator"
             /\ last'.args.validator_id = args[p].validator_id
             /\ validators' = Append(validators, args[p].validator_id)]_vars

\* add_validator extended a list that already held an id, and an append was
\* made after it
C23_Witness ==
    /\ Len(validators) = 2
    /\ validators[1] # validators[2]
    /\ last.op = "append"

\* C24: the timestamps of the blocks of the Ledger Store do not decrease as
\* the index grows.
C24_TimestampsFollowIndex ==
    \A a, b \in ledger : a.index < b.index => a.timestamp <= b.timestamp

\* C25: the blocks get_chain returns have all seven fields equal to those of
\* the documents it read, one block per document, in ascending index order.
C25_GetChainReturnsStoredFields ==
    (last.op = "get_chain" /\ last.ret.kind = "return")
    => /\ Len(last.ret.val) = Len(last.local.items)
       /\ Range(last.local.items) = ledger
       /\ \A i \in 1..Len(last.ret.val) :
             /\ \A f \in BlockFields :
                   last.ret.val[i][f] = last.local.items[i][f]
             /\ i > 1 => last.ret.val[i - 1].index <= last.ret.val[i].index

\* C26: every block of the Ledger Store refers to a record the Content Store
\* holds, and no two blocks refer to the same record.
C26_BlocksReferToOwnStoredRecord ==
    /\ \A b \in ledger : b.medical_record_id \in DOMAIN records
    /\ \A a, b \in ledger :
          a.medical_record_id = b.medical_record_id => a = b

\* two blocks are stored, and a failed append left a record no block refers to
C26_Witness ==
    /\ Cardinality(ledger) >= 2
    /\ \E id \in DOMAIN records :
          \A b \in ledger : b.medical_record_id # id

\* C27: the validator_id of every block of the Ledger Store is in the
\* in-memory validator list.
C27_BlocksAreByListedValidators ==
    \A b \in ledger : b.validator_id \in Range(validators)

\* the Ledger Store holds a block of a validator that add_validator
\* registered
C27_Witness ==
    \E b \in ledger :
       \E i \in 1..Len(calls.upsert_validator[b.validator_id]) :
          calls.upsert_validator[b.validator_id][i]

\* C28: every id of the in-memory validator list is an id of the Registry.
C28_ListedValidatorsAreRegistered ==
    Range(validators) \subseteq registry

\* the list was loaded from the Registry, and an add_validator whose upsert
\* failed left its id out of it
C28_Witness ==
    /\ validators # <<>>
    /\ last.op = "add_validator"
    /\ last.local.asked
    /\ ~last.local.stored
    /\ last.args.validator_id \notin Range(validators)

====
